---- MODULE Spec2Model ----
(***************************************************************************)
(* Asset lifecycle engine of SAMS: workflows (requests to change an        *)
(* asset's custody), the assets they refer to and the asset history        *)
(* ledger, as implemented by the FastAPI endpoints of                      *)
(* api/v1/endpoints/workflows.py and by services/workflow_service.py and   *)
(* services/asset_service.py.                                              *)
(*                                                                         *)
(* Every request handler runs in its own SQLAlchemy session (database.py,  *)
(* get_db) against PostgreSQL at its default isolation level, READ         *)
(* COMMITTED.  No handler locks a row (there is no with_for_update), so a  *)
(* handler is modelled as the sequence of its database round trips: each   *)
(* SELECT reads the committed state of that moment into the session, the   *)
(* handler changes its loaded objects in memory, and db.commit() flushes   *)
(* an UPDATE of exactly the columns whose value differs from the loaded    *)
(* one, then the INSERTs, and commits.  Steps of different handlers        *)
(* interleave freely under Spec and ServiceSpec and not at all under       *)
(* SerialSpec.                                                             *)
(*                                                                         *)
(* RegistrySpec adds the asset registry endpoints of                       *)
(* api/v1/endpoints/assets.py (update, delete, status change, user         *)
(* assignment), each a single round trip, next to workflow creation and    *)
(* approval, one request at a time.                                        *)
(*                                                                         *)
(* NotifySpec follows the handlers that write a workflow past their        *)
(* commit, through the notification helpers, to their return.  TagSpec     *)
(* holds the handlers that create assets (POST /assets and the receipt     *)
(* service with AssetService.generate_asset_number), interleaved.          *)
(*                                                                         *)
(* ViewSpec adds the mark-viewed endpoint to the decisions.                *)
(* AssetServiceSpec holds the methods of AssetService and AssetRepository  *)
(* that assign, release and delete an asset, GradeSpec the two update      *)
(* operations over assets with a purchase date and a grade, and CodeSpec   *)
(* the tag generation over categories that share a code.                   *)
(***************************************************************************)
EXTENDS Integers, Sequences, FiniteSets, TLC

(* ---------------- bounds of the model ---------------- *)
MaxWorkflows == 2
MaxRequests == 2
MaxHistory == 3

(* ---------------- the program's value sets ---------------- *)
None == "none"
NoWorkflow == 0
NoTime == 0

\* users.role is one of admin, manager, employee; one employee and one
\* manager stand for the privileged and the unprivileged requesters.
Employees == {"u1"}
Managers == {"m1"}
Admins == {"ad1"}
Users == Employees \cup Managers
Assets == {"a1"}
Slots == 1..MaxRequests

UserRole(u) ==
  IF u \in Admins THEN "admin" ELSE IF u \in Managers THEN "manager" ELSE "employee"

\* The workflow types a request can carry and the workflows.type column
\* (a plain string) can hold.
WorkflowType ==
  {"checkout", "checkin", "transfer", "maintenance", "rental", "return", "disposal"}
WorkflowStatus == {"pending", "approved", "rejected", "cancelled", "completed"}
AssetStatus == {"issued", "loaned", "general", "stock", "server_room", "disposed"}

(* ---------------- state ---------------- *)
VARIABLES
  assets,     \* the assets table: status, assigned_to, deleted_at of every row
  workflows,  \* the workflows table; a workflow's id is its index
  history,    \* the asset_history table, in insertion order
  req,        \* the request handlers in flight, one per slot
  now         \* the clock read by datetime.now(); it ticks with every reading

vars == <<assets, workflows, history, req, now>>

\* A slot holds what its handler keeps between two steps, its response
\* when it is done, and three history variables of the model: raced (see
\* Races) and, for a call that its guards turned away, whether the caller
\* passed the authorisation check and whether the workflow was decided.
IdleReq ==
  [pc |-> "idle", actor |-> None, wf |-> NoWorkflow,
   aStatus |-> None, aAssigned |-> None, raced |-> FALSE, result |-> "none",
   authorised |-> FALSE, decided |-> FALSE]

\* Assets exist before any workflow does; they are unassigned and either
\* in the rental pool or in stock.
Init ==
  /\ assets \in [Assets -> [status : {"loaned", "stock"}, assigned_to : {None},
                            deleted_at : {NoTime}]]
  /\ workflows = <<>>
  /\ history = <<>>
  /\ req = [r \in Slots |-> IdleReq]
  /\ now = 1

(* ---------------- helpers ---------------- *)
RequireRole(u, roles) == UserRole(u) \in roles

WorkflowIds == 1..Len(workflows)

NewWorkflow(t, a, requester, assignee) ==
  [type |-> t, status |-> "pending", asset_id |-> a, requester_id |-> requester,
   assignee_id |-> assignee, approver_id |-> None, approved_at |-> NoTime,
   rejected_at |-> NoTime, reject_reason |-> FALSE]

AssetHistory(a, by, action, from, to, w) ==
  [asset_id |-> a, performed_by |-> by, action |-> action,
   from_user_id |-> from, to_user_id |-> to, workflow_id |-> w]

\* The asset row a session has loaded, as it was read.
Loaded(r) == [status |-> req[r].aStatus, assigned_to |-> req[r].aAssigned]

\* The UPDATE that a flush emits: only the columns whose in-memory value
\* differs from the loaded one are written over the committed row (loaded
\* and mem hold the columns the handler works with).
Flush(row, loaded, mem) ==
  [f \in DOMAIN row |->
     IF f \in DOMAIN loaded THEN (IF mem[f] # loaded[f] THEN mem[f] ELSE row[f])
     ELSE row[f]]

\* A handler that has passed its guards and holds its loaded workflow.
Begin(r, op, u, w) ==
  [req EXCEPT ![r].pc = op, ![r].actor = u, ![r].wf = w]

\* A handler that has raised or returned: only its outcome is left.
Respond(r, res) ==
  [req EXCEPT ![r] = [IdleReq EXCEPT !.pc = "done", !.result = res]]

\* The workflow exists and has left pending.
Decided(w) == IF w \in WorkflowIds THEN workflows[w].status # "pending" ELSE FALSE

\* A handler whose guards have raised.
Refuse(r, res, authorised, w) ==
  [req EXCEPT ![r] = [IdleReq EXCEPT !.pc = "done", !.result = res,
                                     !.authorised = authorised,
                                     !.decided = Decided(w)]]

(* ---------------- workflow creation (endpoints) ---------------- *)
\* The asset ids a request can name: the assets and an id that no asset has.
NoAsset == "a0"
AssetIds == Assets \cup {NoAsset}

\* CreateWorkflowOutcome with a rental branch that does not ask for the
\* expected return date.
CreateWorkflowOutcome_RentalWithoutDate(u, t, a, erd) ==
  IF a \notin Assets THEN "NotFound"
  ELSE IF t = "rental" /\ assets[a].status # "loaned" THEN "Validation"
  ELSE IF t = "rental" /\ assets[a].assigned_to # None THEN "Validation"
  ELSE IF t = "return" /\ assets[a].assigned_to # u THEN "Validation"
  ELSE IF t \in {"disposal", "maintenance"}
          /\ UserRole(u) \notin {"admin", "manager"} THEN "Forbidden"
  ELSE "ok"

\* CreateWorkflowOutcome with no role check on maintenance requests.
CreateWorkflowOutcome_MaintenanceOpen(u, t, a, erd) ==
  IF a \notin Assets THEN "NotFound"
  ELSE IF t = "rental" /\ assets[a].status # "loaned" THEN "Validation"
  ELSE IF t = "rental" /\ assets[a].assigned_to # None THEN "Validation"
  ELSE IF t = "rental" /\ ~erd THEN "Validation"
  ELSE IF t = "return" /\ assets[a].assigned_to # u THEN "Validation"
  ELSE IF t = "disposal" /\ UserRole(u) \notin {"admin", "manager"} THEN "Forbidden"
  ELSE "ok"

\* POST /workflows: the outcome of the validation of the request, by
\* workflow type (404 NotFound, 400 Validation, 403 Forbidden); erd tells
\* whether the request carries an expected_return_date.
CreateWorkflowOutcome(u, t, a, erd) ==
  IF a \notin Assets THEN "NotFound"
  ELSE IF t = "rental" /\ assets[a].status # "loaned" THEN "Validation"
  ELSE IF t = "rental" /\ assets[a].assigned_to # None THEN "Validation"
  ELSE IF t = "rental" /\ ~erd THEN "Validation"
  ELSE IF t = "return" /\ assets[a].assigned_to # u THEN "Validation"
  ELSE IF t \in {"disposal", "maintenance"}
          /\ UserRole(u) \notin {"admin", "manager"} THEN "Forbidden"
  ELSE "ok"

CreateWorkflowAllowed(u, t, a, erd) == CreateWorkflowOutcome(u, t, a, erd) = "ok"

\* POST /workflows up to its db.commit(): the validation and the INSERT.
CreateWorkflowCommit(u, t, a, assignee, erd) ==
  /\ Len(workflows) < MaxWorkflows
  /\ CreateWorkflowAllowed(u, t, a, erd)
  /\ workflows' = Append(workflows,
       NewWorkflow(t, a, u,
                   IF t = "transfer" THEN assignee
                   ELSE IF t = "rental" THEN u ELSE None))
  /\ UNCHANGED <<assets, history, now>>

\* POST /workflows
CreateWorkflow(u, t, a, assignee, erd) ==
  CreateWorkflowCommit(u, t, a, assignee, erd) /\ UNCHANGED req

\* POST /workflows/checkout: the outcome of its validation.
CreateCheckoutOutcome(u, a) ==
  IF a \notin Assets THEN "NotFound"
  ELSE IF assets[a].status \notin {"loaned", "stock"} THEN "Validation"
  ELSE "ok"

\* POST /workflows/checkout up to its db.commit().
CreateCheckoutCommit(u, a) ==
  /\ Len(workflows) < MaxWorkflows
  /\ CreateCheckoutOutcome(u, a) = "ok"
  /\ workflows' = Append(workflows, NewWorkflow("checkout", a, u, u))
  /\ UNCHANGED <<assets, history, now>>

\* POST /workflows/checkout
CreateCheckoutRequest(u, a) == CreateCheckoutCommit(u, a) /\ UNCHANGED req

\* POST /workflows/checkin: the outcome of its validation.
CreateCheckinOutcome(u, a) ==
  IF a \notin Assets THEN "NotFound"
  ELSE IF assets[a].assigned_to # u THEN "Validation"
  ELSE "ok"

\* CreateCheckinRequest with a creation that already releases the asset.
CreateCheckinRequest_ReleasesAsset(u, a) ==
  /\ Len(workflows) < MaxWorkflows
  /\ CreateCheckinOutcome(u, a) = "ok"
  /\ workflows' = Append(workflows, NewWorkflow("checkin", a, u, None))
  /\ assets' = [assets EXCEPT ![a].assigned_to = None]
  /\ UNCHANGED <<history, req, now>>

\* POST /workflows/checkin up to its db.commit().
CreateCheckinCommit(u, a) ==
  /\ Len(workflows) < MaxWorkflows
  /\ CreateCheckinOutcome(u, a) = "ok"
  /\ workflows' = Append(workflows, NewWorkflow("checkin", a, u, None))
  /\ UNCHANGED <<assets, history, now>>

\* POST /workflows/checkin
CreateCheckinRequest(u, a) == CreateCheckinCommit(u, a) /\ UNCHANGED req

(* ---------------- approve (endpoint) ---------------- *)
\* ApproveOutcome with a guard that only turns away approved workflows.
ApproveOutcome_OnlyApprovedGuard(u, w) ==
  IF ~RequireRole(u, {"admin", "manager"}) THEN "Forbidden"
  ELSE IF w \notin WorkflowIds THEN "NotFound"
  ELSE IF workflows[w].status = "approved" THEN "Conflict"
  ELSE "ok"

\* The outcome of the guards of POST /workflows/{id}/approve.
ApproveOutcome(u, w) ==
  IF ~RequireRole(u, {"admin", "manager"}) THEN "Forbidden"
  ELSE IF w \notin WorkflowIds THEN "NotFound"
  ELSE IF workflows[w].status # "pending" THEN "Conflict"
  ELSE "ok"

\* EndpointAssetEffect with a checkin that resets the status only.
EndpointAssetEffect_CheckinKeepsUser(w, row) ==
  CASE w.type = "checkout" -> [status |-> "issued", assigned_to |-> w.assignee_id]
    [] w.type = "checkin"  -> [row EXCEPT !.status = "loaned"]
    [] w.type = "rental"   -> [row EXCEPT !.assigned_to = w.requester_id]
    [] w.type = "return"   -> [row EXCEPT !.assigned_to = None]
    [] w.type = "disposal" -> [status |-> "disposed", assigned_to |-> None]
    [] OTHER -> row

\* EndpointAssetEffect with a checkin that puts the asset in stock.
EndpointAssetEffect_CheckinToStock(w, row) ==
  CASE w.type = "checkout" -> [status |-> "issued", assigned_to |-> w.assignee_id]
    [] w.type = "checkin"  -> [status |-> "stock", assigned_to |-> None]
    [] w.type = "rental"   -> [row EXCEPT !.assigned_to = w.requester_id]
    [] w.type = "return"   -> [row EXCEPT !.assigned_to = None]
    [] w.type = "disposal" -> [status |-> "disposed", assigned_to |-> None]
    [] OTHER -> row

\* EndpointAssetEffect with a rental that issues the asset like a checkout.
EndpointAssetEffect_RentalIssues(w, row) ==
  CASE w.type = "checkout" -> [status |-> "issued", assigned_to |-> w.assignee_id]
    [] w.type = "checkin"  -> [status |-> "loaned", assigned_to |-> None]
    [] w.type = "rental"   -> [status |-> "issued", assigned_to |-> w.requester_id]
    [] w.type = "return"   -> [row EXCEPT !.assigned_to = None]
    [] w.type = "disposal" -> [status |-> "disposed", assigned_to |-> None]
    [] OTHER -> row

\* EndpointAssetEffect with a disposal that changes the status only.
EndpointAssetEffect_DisposalKeepsUser(w, row) ==
  CASE w.type = "checkout" -> [status |-> "issued", assigned_to |-> w.assignee_id]
    [] w.type = "checkin"  -> [status |-> "loaned", assigned_to |-> None]
    [] w.type = "rental"   -> [row EXCEPT !.assigned_to = w.requester_id]
    [] w.type = "return"   -> [row EXCEPT !.assigned_to = None]
    [] w.type = "disposal" -> [row EXCEPT !.status = "disposed"]
    [] OTHER -> row

\* The asset as approve_workflow leaves it in memory, by workflow type.
EndpointAssetEffect(w, row) ==
  CASE w.type = "checkout" -> [status |-> "issued", assigned_to |-> w.assignee_id]
    [] w.type = "checkin"  -> [status |-> "loaned", assigned_to |-> None]
    [] w.type = "rental"   -> [row EXCEPT !.assigned_to = w.requester_id]
    [] w.type = "return"   -> [row EXCEPT !.assigned_to = None]
    [] w.type = "disposal" -> [status |-> "disposed", assigned_to |-> None]
    [] OTHER -> row

\* The history rows approve_workflow adds to the session, by workflow type.
EndpointHistory(w, id, by) ==
  CASE w.type = "checkout" ->
         <<AssetHistory(w.asset_id, by, "assigned", None, w.assignee_id, id)>>
    [] w.type = "checkin" ->
         <<AssetHistory(w.asset_id, by, "unassigned", w.requester_id, None, id)>>
    [] w.type = "rental" ->
         <<AssetHistory(w.asset_id, by, "assigned", None, w.requester_id, id)>>
    [] w.type = "return" ->
         <<AssetHistory(w.asset_id, by, "unassigned", w.requester_id, None, id)>>
    [] w.type = "disposal" ->
         <<AssetHistory(w.asset_id, by, "status_changed", None, None, id)>>
    [] OTHER -> <<>>

\* require_role, SELECT workflow, the pending guard, the in-memory update.
ApproveBegin(r, u, w) ==
  /\ req[r].pc = "idle"
  /\ req' = IF ApproveOutcome(u, w) = "ok" THEN Begin(r, "approve", u, w)
            ELSE Refuse(r, ApproveOutcome(u, w),
                        RequireRole(u, {"admin", "manager"}), w)
  /\ UNCHANGED <<assets, workflows, history, now>>

\* SELECT asset (the asset row of a workflow always exists: assets are
\* never physically deleted and workflows.asset_id is a foreign key).
ApproveLoadAsset(r) ==
  /\ req[r].pc = "approve"
  /\ LET a == assets[workflows[req[r].wf].asset_id]
     IN req' = [req EXCEPT ![r].pc = "approve_asset",
                           ![r].aStatus = a.status, ![r].aAssigned = a.assigned_to]
  /\ UNCHANGED <<assets, workflows, history, now>>

\* The user a workflow hands the asset to when it is approved, if any.
Target(w) ==
  CASE w.type = "checkout" -> w.assignee_id
    [] w.type = "rental" -> w.requester_id
    [] OTHER -> None

\* History variable of the model, not of the program: request q has loaded
\* its rows and not yet committed while the approval of workflow id, which
\* hands the same asset to another user, commits.
Races(q, id) ==
  /\ req[q].pc \in {"approve", "approve_asset", "svc", "svc_asset"}
  /\ req[q].wf # id
  /\ workflows[req[q].wf].asset_id = workflows[id].asset_id
  /\ Target(workflows[id]) # None
  /\ Target(workflows[req[q].wf]) # None
  /\ Target(workflows[req[q].wf]) # Target(workflows[id])

\* db.commit(): UPDATE workflows, UPDATE assets, INSERT asset_history, COMMIT;
\* next is where the handler stands after the commit.
ApproveCommitTo(r, next) ==
  /\ req[r].pc = "approve_asset"
  /\ LET id == req[r].wf
         w == workflows[id]
     IN /\ workflows' = [workflows EXCEPT ![id].status = "approved",
                                          ![id].approver_id = req[r].actor,
                                          ![id].approved_at = now]
        /\ assets' = [assets EXCEPT ![w.asset_id] =
                        Flush(@, Loaded(r), EndpointAssetEffect(w, Loaded(r)))]
        /\ history' = history \o EndpointHistory(w, id, req[r].actor)
        /\ req' = [q \in Slots |->
                     IF q = r THEN next
                     ELSE IF Races(q, id) THEN [req[q] EXCEPT !.raced = TRUE]
                     ELSE req[q]]
  /\ now' = now + 1

\* The commit of an approval and the handler's return (the notification
\* that lies between the two writes nothing).
ApproveCommit(r) ==
  ApproveCommitTo(r, [IdleReq EXCEPT !.pc = "done", !.result = "ok"])

(* ---------------- reject, cancel (endpoints) ---------------- *)
\* The outcome of the guards of POST /workflows/{id}/reject.
RejectOutcome(u, w) ==
  IF ~RequireRole(u, {"admin", "manager"}) THEN "Forbidden"
  ELSE IF w \notin WorkflowIds THEN "NotFound"
  ELSE IF workflows[w].status # "pending" THEN "Conflict"
  ELSE "ok"

RejectBegin(r, u, w) ==
  /\ req[r].pc = "idle"
  /\ req' = IF RejectOutcome(u, w) = "ok" THEN Begin(r, "reject", u, w)
            ELSE Refuse(r, RejectOutcome(u, w),
                        RequireRole(u, {"admin", "manager"}), w)
  /\ UNCHANGED <<assets, workflows, history, now>>

\* RejectCommit with a rejection that also takes the asset from its user.
RejectCommit_UnassignsAsset(r) ==
  /\ req[r].pc = "reject"
  /\ workflows' = [workflows EXCEPT ![req[r].wf].status = "rejected",
                                    ![req[r].wf].approver_id = req[r].actor,
                                    ![req[r].wf].rejected_at = now,
                                    ![req[r].wf].reject_reason = TRUE]
  /\ assets' = [assets EXCEPT ![workflows[req[r].wf].asset_id].assigned_to = None]
  /\ now' = now + 1
  /\ req' = Respond(r, "ok")
  /\ UNCHANGED history

\* db.commit() of reject_workflow: UPDATE workflows, COMMIT.
RejectCommit(r) ==
  /\ req[r].pc = "reject"
  /\ workflows' = [workflows EXCEPT ![req[r].wf].status = "rejected",
                                    ![req[r].wf].approver_id = req[r].actor,
                                    ![req[r].wf].rejected_at = now,
                                    ![req[r].wf].reject_reason = TRUE]
  /\ now' = now + 1
  /\ req' = Respond(r, "ok")
  /\ UNCHANGED <<assets, history>>

\* CancelOutcome with the pending guard before the requester guard.
CancelOutcome_PendingFirst(u, w) ==
  IF w \notin WorkflowIds THEN "NotFound"
  ELSE IF workflows[w].status # "pending" THEN "Conflict"
  ELSE IF workflows[w].requester_id # u THEN "Forbidden"
  ELSE "ok"

\* The outcome of the guards of PATCH /workflows/{id}/cancel.
CancelOutcome(u, w) ==
  IF w \notin WorkflowIds THEN "NotFound"
  ELSE IF workflows[w].requester_id # u THEN "Forbidden"
  ELSE IF workflows[w].status # "pending" THEN "Conflict"
  ELSE "ok"

CancelBegin(r, u, w) ==
  /\ req[r].pc = "idle"
  /\ req' = IF CancelOutcome(u, w) = "ok" THEN Begin(r, "cancel", u, w)
            ELSE Refuse(r, CancelOutcome(u, w),
                        IF w \in WorkflowIds THEN workflows[w].requester_id = u
                        ELSE FALSE, w)
  /\ UNCHANGED <<assets, workflows, history, now>>

CancelCommit(r) ==
  /\ req[r].pc = "cancel"
  /\ workflows' = [workflows EXCEPT ![req[r].wf].status = "cancelled"]
  /\ req' = Respond(r, "ok")
  /\ UNCHANGED <<assets, history, now>>

(* ---------------- mark-viewed (endpoint) ---------------- *)
\* The outcome of the guards of PATCH /workflows/{id}/mark-viewed: the
\* workflow exists and the caller is its requester.  The status of the
\* workflow is not looked at.
MarkViewedOutcome(u, w) ==
  IF w \notin WorkflowIds THEN "NotFound"
  ELSE IF workflows[w].requester_id # u THEN "Forbidden"
  ELSE "ok"

\* SELECT workflow, the two guards, workflow.viewed_by_requester = True.
MarkViewedBegin(r, u, w) ==
  /\ req[r].pc = "idle"
  /\ req' = IF MarkViewedOutcome(u, w) = "ok" THEN Begin(r, "mark_viewed", u, w)
            ELSE Refuse(r, MarkViewedOutcome(u, w),
                        IF w \in WorkflowIds THEN workflows[w].requester_id = u
                        ELSE FALSE, w)
  /\ UNCHANGED <<assets, workflows, history, now>>

\* db.commit() and db.refresh(): models/workflow.py maps no column
\* viewed_by_requester, so the assignment made a plain attribute of the
\* loaded object, the flush has nothing to write and the row stays as it is.
MarkViewedCommit(r) ==
  /\ req[r].pc = "mark_viewed"
  /\ req' = Respond(r, "ok")
  /\ UNCHANGED <<assets, workflows, history, now>>

(* ---------------- approve (WorkflowService) ---------------- *)
\* The outcome of the guards of WorkflowService.approve_workflow; every
\* failure is a ValueError, told apart here by its message.
ServiceOutcome(w) ==
  IF w \notin WorkflowIds THEN "NotFound"
  ELSE IF workflows[w].status # "pending" THEN "Conflict"
  ELSE IF workflows[w].type \notin {"checkout", "checkin"} THEN "Unsupported"
  ELSE "ok"

\* The status check of AssetService.assign_asset / unassign_asset.
ServiceAssetAllowed(w, row) ==
  IF w.type = "checkout" THEN row.status \in {"loaned", "stock"}
  ELSE row.status = "issued"

\* user_id = workflow.assignee_id or workflow.requester_id
ServiceAssignee(w) == IF w.assignee_id # None THEN w.assignee_id ELSE w.requester_id

\* The asset as assign_asset / unassign_asset leaves it in memory.
ServiceAssetEffect(w, row) ==
  IF w.type = "checkout"
  THEN [status |-> "issued", assigned_to |-> ServiceAssignee(w)]
  ELSE [status |-> "loaned", assigned_to |-> None]

\* The history row assign_asset / unassign_asset creates (no workflow_id
\* is passed to create_history).
ServiceHistory(w, row, by) ==
  IF w.type = "checkout"
  THEN AssetHistory(w.asset_id, by, "assigned", row.assigned_to, ServiceAssignee(w),
                    NoWorkflow)
  ELSE AssetHistory(w.asset_id, by, "unassigned", row.assigned_to, None, NoWorkflow)

\* SELECT workflow, the pending guard, the dispatch on the type; an
\* unsupported type raises inside the try block and is rolled back.
ServiceApproveBegin(r, u, w) ==
  /\ req[r].pc = "idle"
  /\ req' = IF ServiceOutcome(w) = "ok" THEN Begin(r, "svc", u, w)
            ELSE Refuse(r, ServiceOutcome(w), TRUE, w)
  /\ UNCHANGED <<assets, workflows, history, now>>

\* assign_asset / unassign_asset: SELECT asset and the status check.
ServiceLoadAsset(r) ==
  /\ req[r].pc = "svc"
  /\ LET w == workflows[req[r].wf]
         a == assets[w.asset_id]
     IN req' = IF ServiceAssetAllowed(w, a)
               THEN [req EXCEPT ![r].pc = "svc_asset",
                                ![r].aStatus = a.status, ![r].aAssigned = a.assigned_to]
               ELSE Respond(r, "Invalid")
  /\ UNCHANGED <<assets, workflows, history, now>>

\* assign_asset / unassign_asset: create_history, then their own
\* db.commit(): UPDATE assets, INSERT asset_history, COMMIT.  (A workflow
\* whose second commit fails stays pending and can be approved again
\* without end; MaxHistory bounds the ledger of the model.)
ServiceAssetCommit(r) ==
  /\ req[r].pc = "svc_asset"
  /\ Len(history) < MaxHistory
  /\ LET id == req[r].wf
         w == workflows[id]
     IN /\ assets' = [assets EXCEPT ![w.asset_id] =
                        Flush(@, Loaded(r), ServiceAssetEffect(w, Loaded(r)))]
        /\ history' = Append(history, ServiceHistory(w, Loaded(r), req[r].actor))
        /\ req' = [q \in Slots |->
                     IF q = r THEN [req[r] EXCEPT !.pc = "svc_wf"]
                     ELSE IF Races(q, id) THEN [req[q] EXCEPT !.raced = TRUE]
                     ELSE req[q]]
  /\ UNCHANGED <<workflows, now>>

\* approve_workflow: the workflow update and the second db.commit().
ServiceWorkflowCommit(r) ==
  /\ req[r].pc = "svc_wf"
  /\ workflows' = [workflows EXCEPT ![req[r].wf].status = "approved",
                                    ![req[r].wf].approver_id = req[r].actor,
                                    ![req[r].wf].approved_at = now]
  /\ now' = now + 1
  /\ req' = Respond(r, "ok")
  /\ UNCHANGED <<assets, history>>

\* Either db.commit() raises: the except block rolls back what the session
\* has not committed yet and raises ValueError.
ServiceCommitFail(r) ==
  /\ req[r].pc \in {"svc_asset", "svc_wf"}
  /\ req' = Respond(r, "InternalError")
  /\ UNCHANGED <<assets, workflows, history, now>>

(* ---------------- failures and the end of a request ---------------- *)
\* db.commit() raises: get_db rolls the session back and the error propagates.
CommitFail(r) ==
  /\ req[r].pc \in {"approve_asset", "reject", "cancel"}
  /\ req' = Respond(r, "InternalError")
  /\ UNCHANGED <<assets, workflows, history, now>>

\* The response is sent and the session closed.
Return(r) ==
  /\ req[r].pc = "done"
  /\ req' = [req EXCEPT ![r] = IdleReq]
  /\ UNCHANGED <<assets, workflows, history, now>>

(* ---------------- asset registry (endpoints of assets.py) ---------------- *)
\* The callers of a registry endpoint open to the given roles: the admin,
\* who passes every role check, and one user the endpoint turns away.
RegistryCallers(roles) ==
  Admins \cup (IF "manager" \in roles THEN Employees ELSE Managers)

\* The values the registry requests carry; a field of an update request
\* can be left unset.
Unset == "unset"
StatusInputs == {"stock", "disposed"}
UpdateStatusInputs == {Unset, "issued"}
UpdateUserInputs == {Unset, None, "u1"}

\* The SELECT of the registry endpoints: WHERE id = ... AND deleted_at IS NULL.
AssetFound(a) == assets[a].deleted_at = NoTime

\* The outcome of the guards of a registry endpoint open to the given roles.
RegistryOutcome(u, a, roles) ==
  IF ~RequireRole(u, roles) THEN "Forbidden"
  ELSE IF ~AssetFound(a) THEN "NotFound"
  ELSE "ok"

\* RegistryCommit with a commit that keeps only the newest ledger entry of
\* the asset.
RegistryCommit_RewritesLedger(r, u, a, roles, row, entries) ==
  /\ req[r].pc = "idle"
  /\ IF RegistryOutcome(u, a, roles) = "ok"
     THEN /\ Len(history) + Len(entries) <= MaxHistory
          /\ assets' = [assets EXCEPT ![a] = row]
          /\ history' = IF entries = <<>> THEN history ELSE entries
          /\ req' = Respond(r, "ok")
     ELSE /\ req' = Respond(r, RegistryOutcome(u, a, roles))
          /\ UNCHANGED <<assets, history>>
  /\ UNCHANGED workflows

\* The commit of a registry endpoint: the asset row as changed and one
\* history row, or the refusal of its guards.
RegistryCommit(r, u, a, roles, row, entries) ==
  /\ req[r].pc = "idle"
  /\ IF RegistryOutcome(u, a, roles) = "ok"
     THEN /\ Len(history) + Len(entries) <= MaxHistory
          /\ assets' = [assets EXCEPT ![a] = row]
          /\ history' = history \o entries
          /\ req' = Respond(r, "ok")
     ELSE /\ req' = Respond(r, RegistryOutcome(u, a, roles))
          /\ UNCHANGED <<assets, history>>
  /\ UNCHANGED workflows

\* DELETE /assets/{id}: soft delete, admin only.
DeleteAsset(r, u, a) ==
  /\ RegistryCommit(r, u, a, {"admin"},
                    [assets[a] EXCEPT !.deleted_at = now, !.status = "disposed"],
                    <<AssetHistory(a, u, "deleted", None, None, NoWorkflow)>>)
  /\ now' = IF RegistryOutcome(u, a, {"admin"}) = "ok" THEN now + 1 ELSE now

\* PATCH /assets/{id}/status
ChangeAssetStatus(r, u, a, new_status) ==
  /\ RegistryCommit(r, u, a, {"admin", "manager"},
                    [assets[a] EXCEPT !.status = new_status],
                    <<AssetHistory(a, u, "status_changed", None, None, NoWorkflow)>>)
  /\ UNCHANGED now

\* PUT /assets/{id}: the fields of the request that are set and differ from
\* the row are assigned; a history row is added if any did.
UpdateAsset(r, u, a, new_status, new_user) ==
  LET row == [assets[a] EXCEPT
                !.status = IF new_status = Unset THEN @ ELSE new_status,
                !.assigned_to = IF new_user = Unset THEN @ ELSE new_user]
  IN /\ RegistryCommit(r, u, a, {"admin", "manager"}, row,
                       IF row # assets[a]
                       THEN <<AssetHistory(a, u, "updated", None, None, NoWorkflow)>>
                       ELSE <<>>)
     /\ UNCHANGED now

\* PATCH /assets/{id}/user: after assigning asset.assigned_to the handler
\* reads AssetStatus.ASSIGNED or AssetStatus.AVAILABLE, which the enum does
\* not have: AttributeError, and get_db rolls the session back.
AssignAssetUser(r, u, a) ==
  /\ req[r].pc = "idle"
  /\ req' = Respond(r, IF RegistryOutcome(u, a, {"admin", "manager"}) = "ok"
                       THEN "InternalError"
                       ELSE RegistryOutcome(u, a, {"admin", "manager"}))
  /\ UNCHANGED <<assets, workflows, history, now>>

(* ---------------- assign, unassign, delete (AssetService) ---------------- *)
\* A call of an AssetService method that has selected its asset: the
\* caller, the asset, the user the asset goes to and the row as loaded.
AssetReq(pc, u, a, user) ==
  [pc |-> pc, actor |-> u, asset_id |-> a, user_id |-> user,
   aStatus |-> assets[a].status, aAssigned |-> assets[a].assigned_to,
   result |-> "none"]

\* AssetService.assign_asset: SELECT ... WHERE id = :asset_id and the status
\* check; both failures are a ValueError.
AssignOutcome(a) ==
  IF a \notin Assets THEN "NotFound"
  ELSE IF assets[a].status \notin {"loaned", "stock"} THEN "Invalid"
  ELSE "ok"

AssignBegin(r, u, a, user) ==
  /\ req[r].pc = "idle"
  /\ req' = IF AssignOutcome(a) = "ok"
            THEN [req EXCEPT ![r] = AssetReq("assign", u, a, user)]
            ELSE Respond(r, AssignOutcome(a))
  /\ UNCHANGED <<assets, workflows, history, now>>

\* assign_asset: the assignment, create_history and db.commit().
AssignCommit(r) ==
  /\ req[r].pc = "assign"
  /\ Len(history) < MaxHistory
  /\ assets' = [assets EXCEPT ![req[r].asset_id] =
                  Flush(@, Loaded(r),
                        [status |-> "issued", assigned_to |-> req[r].user_id])]
  /\ history' = Append(history,
                       AssetHistory(req[r].asset_id, req[r].actor, "assigned",
                                    req[r].aAssigned, req[r].user_id, NoWorkflow))
  /\ req' = Respond(r, "ok")
  /\ UNCHANGED <<workflows, now>>

\* AssetService.unassign_asset: the SELECT by id and the status check.
UnassignOutcome(a) ==
  IF a \notin Assets THEN "NotFound"
  ELSE IF assets[a].status # "issued" THEN "Invalid"
  ELSE "ok"

UnassignBegin(r, u, a) ==
  /\ req[r].pc = "idle"
  /\ req' = IF UnassignOutcome(a) = "ok"
            THEN [req EXCEPT ![r] = AssetReq("unassign", u, a, None)]
            ELSE Respond(r, UnassignOutcome(a))
  /\ UNCHANGED <<assets, workflows, history, now>>

\* UnassignCommit with a release that leaves the asset in general use.
UnassignCommit_ToGeneral(r) ==
  /\ req[r].pc = "unassign"
  /\ Len(history) < MaxHistory
  /\ assets' = [assets EXCEPT ![req[r].asset_id] =
                  Flush(@, Loaded(r), [status |-> "general", assigned_to |-> None])]
  /\ history' = Append(history,
                       AssetHistory(req[r].asset_id, req[r].actor, "unassigned",
                                    req[r].aAssigned, None, NoWorkflow))
  /\ req' = Respond(r, "ok")
  /\ UNCHANGED <<workflows, now>>

\* unassign_asset: the release, create_history and db.commit().
UnassignCommit(r) ==
  /\ req[r].pc = "unassign"
  /\ Len(history) < MaxHistory
  /\ assets' = [assets EXCEPT ![req[r].asset_id] =
                  Flush(@, Loaded(r), [status |-> "loaned", assigned_to |-> None])]
  /\ history' = Append(history,
                       AssetHistory(req[r].asset_id, req[r].actor, "unassigned",
                                    req[r].aAssigned, None, NoWorkflow))
  /\ req' = Respond(r, "ok")
  /\ UNCHANGED <<workflows, now>>

\* AssetService.delete_asset: the SELECT by id and the deleted_at check.
ServiceDeleteOutcome(a) ==
  IF a \notin Assets THEN "NotFound"
  ELSE IF assets[a].deleted_at # NoTime THEN "Invalid"
  ELSE "ok"

ServiceDeleteBegin(r, u, a) ==
  /\ req[r].pc = "idle"
  /\ req' = IF ServiceDeleteOutcome(a) = "ok"
            THEN [req EXCEPT ![r] = AssetReq("delete", u, a, None)]
            ELSE Respond(r, ServiceDeleteOutcome(a))
  /\ UNCHANGED <<assets, workflows, history, now>>

\* delete_asset: deleted_at = datetime.now(), status = DISPOSED,
\* create_history and db.commit().
ServiceDeleteCommit(r) ==
  /\ req[r].pc = "delete"
  /\ Len(history) < MaxHistory
  /\ assets' = [assets EXCEPT ![req[r].asset_id].deleted_at = now,
                              ![req[r].asset_id].status = "disposed"]
  /\ history' = Append(history,
                       AssetHistory(req[r].asset_id, req[r].actor, "deleted",
                                    None, None, NoWorkflow))
  /\ now' = now + 1
  /\ req' = Respond(r, "ok")
  /\ UNCHANGED workflows

\* AssetRepository.soft_delete: the asset that is not yet deleted gets
\* deleted_at = datetime.now(UTC) and is committed; the method returns the
\* asset, or None when it finds none, and raises nothing.
RepositorySoftDelete(r, a) ==
  /\ req[r].pc = "idle"
  /\ IF a \in Assets /\ assets[a].deleted_at = NoTime
     THEN /\ assets' = [assets EXCEPT ![a].deleted_at = now]
          /\ now' = now + 1
          /\ req' = Respond(r, "ok")
     ELSE /\ req' = Respond(r, "None")
          /\ UNCHANGED <<assets, now>>
  /\ UNCHANGED <<workflows, history>>

(* ---------------- asset grade (assets.py, asset_service.py) ---------------- *)
\* A purchase date stands for the whole years that have passed since it;
\* the column is nullable.
PurchaseDates == {"y1", "y3", "y5"}
YearsOld(purchase_date) ==
  CASE purchase_date = "y1" -> 1 [] purchase_date = "y3" -> 3 [] purchase_date = "y5" -> 5

\* AssetService.calculate_grade
CalculateGrade(purchase_date) ==
  IF purchase_date = None THEN "A"
  ELSE IF YearsOld(purchase_date) < 2 THEN "A"
  ELSE IF YearsOld(purchase_date) < 4 THEN "B"
  ELSE "C"

\* The purchase_date and grade fields of an UpdateAssetRequest: left unset
\* or given; a purchase_date can be given as null.
DateInputs == {Unset, None} \cup PurchaseDates
GradeInputs == {Unset, "A", "C"}

\* PUT /assets/{id} with purchase_date and grade: every field of the
\* request that is set and differs from the row is assigned, and nothing
\* else is.
UpdateAssetFields(r, u, a, purchase_date, grade) ==
  LET row == [assets[a] EXCEPT
                !.purchase_date = IF purchase_date = Unset THEN @ ELSE purchase_date,
                !.grade = IF grade = Unset THEN @ ELSE grade]
  IN /\ RegistryCommit(r, u, a, {"admin", "manager"}, row,
                       IF row # assets[a]
                       THEN <<AssetHistory(a, u, "updated", None, None, NoWorkflow)>>
                       ELSE <<>>)
     /\ UNCHANGED now

\* AssetService.update_asset: the asset is selected by id alone; a field
\* is assigned when its value is not None and differs; the grade is
\* recalculated when the request names purchase_date and the asset has one.
ServiceUpdateAsset(r, u, a, purchase_date, grade) ==
  LET set == [assets[a] EXCEPT
                !.purchase_date = IF purchase_date \in {Unset, None} THEN @
                                  ELSE purchase_date,
                !.grade = IF grade = Unset THEN @ ELSE grade]
      row == IF purchase_date # Unset /\ set.purchase_date # None
             THEN [set EXCEPT !.grade = CalculateGrade(set.purchase_date)]
             ELSE set
  IN /\ req[r].pc = "idle"
     /\ Len(history) < MaxHistory
     /\ assets' = [assets EXCEPT ![a] = row]
     /\ history' = IF row # assets[a]
                   THEN Append(history,
                               AssetHistory(a, u, "updated", None, None, NoWorkflow))
                   ELSE history
     /\ req' = Respond(r, "ok")
     /\ UNCHANGED <<workflows, now>>

(* ---------------- asset queries (endpoints of assets.py) ---------------- *)
\* GET /assets without filters: the assets whose deleted_at is NULL.
GetAssets == {a \in Assets : assets[a].deleted_at = NoTime}

\* GET /assets/{asset_id}: the SELECT carries deleted_at IS NULL, and no
\* row is answered 404.
GetAsset(a) ==
  IF a \in Assets /\ assets[a].deleted_at = NoTime THEN "ok" ELSE "NotFound"

\* GET /assets/{asset_id}/history: the asset is looked up by id alone, and
\* its entries are returned newest first, at most limit of them.
HistoryLimit == 50
RECURSIVE Newest(_, _)
Newest(entries, limit) ==
  IF entries = <<>> \/ limit = 0 THEN <<>>
  ELSE <<entries[Len(entries)]>>
         \o Newest(SubSeq(entries, 1, Len(entries) - 1), limit - 1)
OfAsset(a, e) == e.asset_id = a
GetAssetHistory(a) ==
  IF a \notin Assets THEN "NotFound"
  ELSE Newest(SelectSeq(history, LAMBDA e : OfAsset(a, e)), HistoryLimit)

(* ---------------- asset creation (assets.py, asset_service.py) ---------------- *)
\* An asset tag CATEGORY-YYYY-SEQ as its prefix CATEGORY-YYYY and its
\* sequence number; a tag of another form has another prefix.
Category == "c1"
NoCategory == "c0"
TagPrefix == "11-2024"
Tag(seq) == [prefix |-> TagPrefix, seq |-> seq]
ManualTag == [prefix |-> "X", seq |-> 0]
TagInputs == {Tag(1), ManualTag}

\* A request of the creation handlers: the tag and the category it carries.
TagReq(pc, u, tag, cat) == [pc |-> pc, actor |-> u, asset_tag |-> tag, category_id |-> cat]

\* The categories table: Category has the code DESKTOP, two more have the
\* codes NOTEBOOK and LAPTOP.
Notebook == "c2"
Laptop == "c3"
Categories == {Category, Notebook, Laptop}
CategoryCode(cat) ==
  CASE cat = Category -> "DESKTOP" [] cat = Notebook -> "NOTEBOOK" [] cat = Laptop -> "LAPTOP"

\* CATEGORY_CODE_OVERRIDES.get(raw_code, category.code)
CategoryCodeOverride(code) ==
  CASE code = "DESKTOP" -> "11"
    [] code = "NOTEBOOK" -> "12"
    [] code = "LAPTOP" -> "12"
    [] code = "MONITOR" -> "14"
    [] OTHER -> code

\* f"{category_code}-{year}-" for a purchase in 2024.
CategoryPrefix(cat) ==
  CASE CategoryCodeOverride(CategoryCode(cat)) = "11" -> TagPrefix
    [] CategoryCodeOverride(CategoryCode(cat)) = "12" -> "12-2024"

\* SELECT ... WHERE asset_tag = :tag finds a row.
TagExists(tag) == \E a \in DOMAIN assets : assets[a].asset_tag = tag

\* AssetService.generate_asset_number: the number of assets of the
\* category whose tag is LIKE 'CATEGORY-YYYY-%', plus one.
NextSeq(cat) ==
  Cardinality({a \in DOMAIN assets :
                 /\ assets[a].category_id = cat
                 /\ assets[a].asset_tag.prefix = CategoryPrefix(cat)}) + 1

\* create_asset_from_receipt, step 4: the tag is generated (ValueError,
\* answered 400, when the category does not exist).
GenerateAssetNumber(r, u, cat) ==
  /\ req[r].pc = "idle"
  /\ req' = IF cat \in Categories
            THEN [req EXCEPT ![r] = TagReq("tag_generated", u,
                                           [prefix |-> CategoryPrefix(cat),
                                            seq |-> NextSeq(cat)], cat)]
            ELSE Respond(r, "Validation")
  /\ UNCHANGED <<assets, workflows, history, now>>

\* AssetService.create_asset: the SELECT that looks for the tag.
ServiceCheckTag(r) ==
  /\ req[r].pc = "tag_generated"
  /\ req' = IF TagExists(req[r].asset_tag) THEN Respond(r, "DuplicateTag")
            ELSE [req EXCEPT ![r].pc = "tag_checked"]
  /\ UNCHANGED <<assets, workflows, history, now>>

\* AssetService.create_asset: db.add(asset); db.flush().  The Asset is
\* built without a name, assets.name is NOT NULL, so the INSERT raises
\* IntegrityError; get_db rolls back and the endpoint answers 500.
ServiceInsertAsset(r) ==
  /\ req[r].pc = "tag_checked"
  /\ req' = Respond(r, "InternalError")
  /\ UNCHANGED <<assets, workflows, history, now>>

\* POST /assets: the outcome of require_role and of the tag check.
CreateAssetOutcome(u, tag) ==
  IF ~RequireRole(u, {"admin", "manager"}) THEN "Forbidden"
  ELSE IF TagExists(tag) THEN "DuplicateTag"
  ELSE "ok"

\* POST /assets: require_role and the SELECT that looks for the tag.
CreateAssetBegin(r, u, tag, cat) ==
  /\ req[r].pc = "idle"
  /\ req' = IF CreateAssetOutcome(u, tag) = "ok"
            THEN [req EXCEPT ![r] = TagReq("create_asset", u, tag, cat)]
            ELSE Respond(r, CreateAssetOutcome(u, tag))
  /\ UNCHANGED <<assets, workflows, history, now>>

\* POST /assets: the SELECT of the category (404 when it is missing), then
\* AssetModel(name=request.name, ...): CreateAssetRequest has no field
\* name, the attribute access raises AttributeError and the request is
\* answered 500 before anything is added to the session.
CreateAssetBuild(r) ==
  /\ req[r].pc = "create_asset"
  /\ req' = Respond(r, IF req[r].category_id = Category THEN "InternalError"
                       ELSE "NotFound")
  /\ UNCHANGED <<assets, workflows, history, now>>

(* ---------------- notification (endpoints) ---------------- *)
\* Where a handler stands between its db.commit() and its notification
\* helper, and after the helper's call of email_service: the mail was
\* sent, email_service returned success = False, something raised inside
\* the helper's try block, or the helper returned early for want of an
\* e-mail address.
NotifyPcs == {"notify_managers", "notify_requester"}
MailPcs == {"mail_sent", "mail_failed", "mail_raised", "mail_skipped"}

\* A creation handler from its validation to its db.commit(); the handler
\* then calls _notify_managers_of_workflow.
CreateNotifying(r) ==
  /\ req[r].pc = "idle"
  /\ \E u \in Users, a \in AssetIds :
       /\ \/ \E t \in WorkflowType :
               \E assignee \in (IF t = "transfer" THEN {None, "u1"} ELSE {None}),
                  erd \in (IF t = "rental" THEN BOOLEAN ELSE {FALSE}) :
                 CreateWorkflowCommit(u, t, a, assignee, erd)
          \/ CreateCheckoutCommit(u, a)
          \/ CreateCheckinCommit(u, a)
       /\ req' = Begin(r, "notify_managers", u, Len(workflows) + 1)

\* approve_workflow to its db.commit(); the handler then calls
\* _notify_requester_of_workflow_decision.
ApproveNotifying(r) ==
  ApproveCommitTo(r, [IdleReq EXCEPT !.pc = "notify_requester",
                                      !.actor = req[r].actor, !.wf = req[r].wf])

\* _notify_managers_of_workflow, _notify_requester_of_workflow_decision:
\* the helper runs to one of its print statements or to its early return.
Notify(r) ==
  /\ req[r].pc \in NotifyPcs
  /\ \E mail \in MailPcs : req' = [req EXCEPT ![r].pc = mail]
  /\ UNCHANGED <<assets, workflows, history, now>>

\* NotifyReturn with a helper that lets an exception through.
NotifyReturn_RaisePropagates(r) ==
  /\ req[r].pc \in MailPcs
  /\ req' = Respond(r, IF req[r].pc = "mail_raised" THEN "InternalError" ELSE "ok")
  /\ UNCHANGED <<assets, workflows, history, now>>

\* The helper has returned None; the handler returns the workflow.
NotifyReturn(r) ==
  /\ req[r].pc \in MailPcs
  /\ req' = Respond(r, "ok")
  /\ UNCHANGED <<assets, workflows, history, now>>

(* ---------------- specification ---------------- *)
\* A response is delivered before any other handler moves on.
NoResponseWaiting == \A q \in Slots : req[q].pc # "done"

Create ==
  /\ NoResponseWaiting
  /\ \/ \E u \in Users, t \in WorkflowType, a \in AssetIds :
          \E assignee \in (IF t = "transfer" THEN {None, "u1"} ELSE {None}),
             erd \in (IF t = "rental" THEN BOOLEAN ELSE {FALSE}) :
            CreateWorkflow(u, t, a, assignee, erd)
     \/ \E u \in Users, a \in AssetIds : CreateCheckoutRequest(u, a)
     \/ \E u \in Users, a \in AssetIds : CreateCheckinRequest(u, a)

\* A new request takes the lowest free slot (the slots are interchangeable).
FreeSlot(r) ==
  /\ NoResponseWaiting
  /\ \A q \in Slots : q < r => req[q].pc # "idle"

Start(r) ==
  /\ FreeSlot(r)
  /\ \E u \in Users, w \in 1..MaxWorkflows :
       \/ ApproveBegin(r, u, w)
       \/ RejectBegin(r, u, w)
       \/ CancelBegin(r, u, w)

Step(r) ==
  \/ ApproveLoadAsset(r)
  \/ ApproveCommit(r)
  \/ RejectCommit(r)
  \/ CancelCommit(r)
  \/ CommitFail(r)

Next ==
  \/ Create
  \/ \E r \in Slots : Start(r)
  \/ \E r \in Slots : NoResponseWaiting /\ Step(r)
  \/ \E r \in Slots : Return(r)

Spec == Init /\ [][Next]_vars

\* The same handlers run one at a time: a request starts only when no
\* other request is in flight.
NoRequestRunning == \A q \in Slots : req[q].pc = "idle"

SerialNext ==
  \/ NoRequestRunning /\ Create
  \/ \E r \in Slots : NoRequestRunning /\ Start(r)
  \/ \E r \in Slots : NoResponseWaiting /\ Step(r)
  \/ \E r \in Slots : Return(r)

SerialSpec == Init /\ [][SerialNext]_vars

\* The registry endpoints together with the creation and the approval of
\* workflows, one request at a time.
RegistryStart(r) ==
  /\ FreeSlot(r)
  /\ \E a \in Assets :
       \/ \E u \in RegistryCallers({"admin"}) : DeleteAsset(r, u, a)
       \/ \E u \in RegistryCallers({"admin", "manager"}) :
            \/ \E new_status \in StatusInputs : ChangeAssetStatus(r, u, a, new_status)
            \/ \E new_status \in UpdateStatusInputs, new_user \in UpdateUserInputs :
                 UpdateAsset(r, u, a, new_status, new_user)
            \/ AssignAssetUser(r, u, a)

RegistryNext ==
  \/ NoRequestRunning /\ Create
  \/ \E r \in Slots : NoRequestRunning /\ RegistryStart(r)
  \/ \E r \in Slots, u \in Managers, w \in 1..MaxWorkflows :
       NoRequestRunning /\ FreeSlot(r) /\ ApproveBegin(r, u, w)
  \/ \E r \in Slots : NoResponseWaiting /\ (ApproveLoadAsset(r) \/ ApproveCommit(r))
  \/ \E r \in Slots : Return(r)

RegistrySpec == Init /\ [][RegistryNext]_vars

\* The handlers that create assets, interleaved, over an assets table that
\* holds an asset with a generated tag or with a tag of another form.
TagInit ==
  /\ assets \in [Assets -> [status : {"stock"}, assigned_to : {None},
                            deleted_at : {NoTime}, category_id : {Category},
                            asset_tag : TagInputs]]
  /\ workflows = <<>>
  /\ history = <<>>
  /\ req = [r \in Slots |-> IdleReq]
  /\ now = 1

TagNext ==
  \/ \E r \in Slots, u \in Users, cat \in {Category, NoCategory} :
       FreeSlot(r) /\ GenerateAssetNumber(r, u, cat)
  \/ \E r \in Slots, u \in Users, tag \in TagInputs \cup {Tag(2)},
         cat \in {Category, NoCategory} :
       FreeSlot(r) /\ CreateAssetBegin(r, u, tag, cat)
  \/ \E r \in Slots : NoResponseWaiting /\ ServiceCheckTag(r)
  \/ \E r \in Slots : NoResponseWaiting /\ ServiceInsertAsset(r)
  \/ \E r \in Slots : NoResponseWaiting /\ CreateAssetBuild(r)
  \/ \E r \in Slots : Return(r)

TagSpec == TagInit /\ [][TagNext]_vars

\* The same handlers over the three categories and an asset that carries a
\* generated tag or a tag of the same form that a request supplied.
CodeInit ==
  /\ assets \in [Assets -> [status : {"stock"}, assigned_to : {None},
                            deleted_at : {NoTime}, category_id : Categories,
                            asset_tag : [prefix : {TagPrefix, "12-2024"}, seq : 1..2]]]
  /\ workflows = <<>>
  /\ history = <<>>
  /\ req = [r \in Slots |-> IdleReq]
  /\ now = 1

CodeNext ==
  \/ \E r \in Slots, u \in Users, cat \in Categories \cup {NoCategory} :
       NoRequestRunning /\ FreeSlot(r) /\ GenerateAssetNumber(r, u, cat)
  \/ \E r \in Slots : ServiceCheckTag(r)
  \/ \E r \in Slots : ServiceInsertAsset(r)
  \/ \E r \in Slots : Return(r)

CodeSpec == CodeInit /\ [][CodeNext]_vars

\* The endpoints that write a workflow, with their notifications, one
\* request at a time; the deciding callers are managers.
NotifyNext ==
  \/ \E r \in Slots : NoRequestRunning /\ FreeSlot(r) /\ CreateNotifying(r)
  \/ \E r \in Slots, u \in Managers, w \in 1..MaxWorkflows :
       NoRequestRunning /\ FreeSlot(r) /\ (ApproveBegin(r, u, w) \/ RejectBegin(r, u, w))
  \/ \E r \in Slots : ApproveLoadAsset(r) \/ ApproveNotifying(r) \/ RejectCommit(r)
  \/ \E r \in Slots : Notify(r) \/ NotifyReturn(r)
  \/ \E r \in Slots : Return(r)

NotifySpec == Init /\ [][NotifyNext]_vars

\* The methods of AssetService and of AssetRepository that assign, release
\* and delete an asset, next to the DELETE endpoint, one call at a time.
AssetServiceNext ==
  \/ \E r \in Slots, u \in Managers, a \in AssetIds, user \in Users :
       NoRequestRunning /\ FreeSlot(r) /\ AssignBegin(r, u, a, user)
  \/ \E r \in Slots, u \in Managers, a \in AssetIds :
       NoRequestRunning /\ FreeSlot(r) /\ UnassignBegin(r, u, a)
  \/ \E r \in Slots, u \in Admins, a \in AssetIds :
       NoRequestRunning /\ FreeSlot(r) /\ ServiceDeleteBegin(r, u, a)
  \/ \E r \in Slots, a \in AssetIds :
       NoRequestRunning /\ FreeSlot(r) /\ RepositorySoftDelete(r, a)
  \/ \E r \in Slots, u \in RegistryCallers({"admin"}), a \in Assets :
       NoRequestRunning /\ FreeSlot(r) /\ DeleteAsset(r, u, a)
  \/ \E r \in Slots : AssignCommit(r)
  \/ \E r \in Slots : UnassignCommit(r)
  \/ \E r \in Slots : ServiceDeleteCommit(r)
  \/ \E r \in Slots : Return(r)

AssetServiceSpec == Init /\ [][AssetServiceNext]_vars

\* The update operations over assets that carry a purchase date and the
\* grade computed from it, one request at a time.
GradeInit ==
  /\ assets \in {row \in [Assets -> [status : {"stock"}, assigned_to : {None},
                                      deleted_at : {NoTime},
                                      purchase_date : {None} \cup PurchaseDates,
                                      grade : {"A", "B", "C"}]] :
                   \A a \in Assets : row[a].grade = CalculateGrade(row[a].purchase_date)}
  /\ workflows = <<>>
  /\ history = <<>>
  /\ req = [r \in Slots |-> IdleReq]
  /\ now = 1

GradeNext ==
  \/ \E r \in Slots, u \in RegistryCallers({"admin", "manager"}), a \in Assets,
         purchase_date \in DateInputs, grade \in GradeInputs :
       NoRequestRunning /\ FreeSlot(r) /\ UpdateAssetFields(r, u, a, purchase_date, grade)
  \/ \E r \in Slots, u \in Managers, a \in Assets,
         purchase_date \in DateInputs, grade \in GradeInputs :
       NoRequestRunning /\ FreeSlot(r) /\ ServiceUpdateAsset(r, u, a, purchase_date, grade)
  \/ \E r \in Slots : Return(r)

GradeSpec == GradeInit /\ [][GradeNext]_vars

\* The decisions of the managers and mark-viewed by any user, one request
\* at a time.
ViewNext ==
  \/ NoRequestRunning /\ Create
  \/ \E r \in Slots, u \in Managers, w \in 1..MaxWorkflows :
       NoRequestRunning /\ FreeSlot(r) /\ (ApproveBegin(r, u, w) \/ RejectBegin(r, u, w))
  \/ \E r \in Slots, u \in Users, w \in 1..MaxWorkflows :
       NoRequestRunning /\ FreeSlot(r) /\ (CancelBegin(r, u, w) \/ MarkViewedBegin(r, u, w))
  \/ \E r \in Slots : ApproveLoadAsset(r) \/ ApproveCommit(r)
  \/ \E r \in Slots : RejectCommit(r) \/ CancelCommit(r)
  \/ \E r \in Slots : MarkViewedCommit(r)
  \/ \E r \in Slots : Return(r)

ViewSpec == Init /\ [][ViewNext]_vars

\* Approval through the service layer: WorkflowService.approve_workflow
\* decides the workflows that the endpoints have created.  The service
\* checks no role; the approver it is given is a manager here.
ServiceStart(r) ==
  /\ FreeSlot(r)
  /\ \E u \in Managers, w \in 1..MaxWorkflows : ServiceApproveBegin(r, u, w)

ServiceStep(r) ==
  \/ ServiceLoadAsset(r)
  \/ ServiceAssetCommit(r)
  \/ ServiceWorkflowCommit(r)
  \/ ServiceCommitFail(r)

ServiceNext ==
  \/ Create
  \/ \E r \in Slots : ServiceStart(r)
  \/ \E r \in Slots : NoResponseWaiting /\ ServiceStep(r)
  \/ \E r \in Slots : Return(r)

ServiceSpec == Init /\ [][ServiceNext]_vars

(* ================= properties ================= *)
Tables == <<assets, workflows, history>>

\* The ledger entries that refer to workflow w.
EntriesFor(w) == {i \in 1..Len(history) : history[i].workflow_id = w}

\* Request r commits the approval of a workflow of type t in this step.
Approves(r, t) == ApproveCommit(r) /\ workflows[req[r].wf].type = t

\* This step appends exactly one ledger entry, with the given action,
\* for workflow id and its asset.
AppendsOne(action, id) ==
  /\ Len(history') = Len(history) + 1
  /\ SubSeq(history', 1, Len(history)) = history
  /\ history'[Len(history')].action = action
  /\ history'[Len(history')].workflow_id = id
  /\ history'[Len(history')].asset_id = workflows[id].asset_id

\* A call of approve, reject or cancel starts in slot r in this step, on a
\* workflow that is not pending.
CallsOnDecided(r) ==
  /\ req[r].pc = "idle"
  /\ req'[r].pc # "idle"
  /\ IF req'[r].pc = "done" THEN req'[r].decided
     ELSE workflows[req'[r].wf].status # "pending"

\* C1 as claimed: every approve, reject or cancel call on a workflow that
\* is not pending fails with ConflictError and changes nothing.
C1_NonPendingCallConflicts ==
  [][\A r \in Slots :
       CallsOnDecided(r) => /\ req'[r].pc = "done"
                            /\ req'[r].result = "Conflict"
                            /\ Tables' = Tables]_vars

\* C1, amended: a call on a workflow that is not pending fails and changes
\* nothing; it fails with ConflictError when the caller passes the
\* authorisation check of the operation (admin or manager for approve and
\* reject, the requester for cancel) and with AuthorizationError otherwise.
C1_NonPendingCallFails ==
  [][\A r \in Slots :
       CallsOnDecided(r) => /\ req'[r].pc = "done"
                            /\ req'[r].result = (IF req'[r].authorised THEN "Conflict"
                                                 ELSE "Forbidden")
                            /\ Tables' = Tables]_vars

\* A call on a rejected workflow, the only decided one, has been answered
\* with a conflict.
C1_Witness ==
  \E r \in Slots, w \in WorkflowIds :
    /\ req[r].pc = "done" /\ req[r].result = "Conflict"
    /\ req[r].decided /\ req[r].authorised
    /\ workflows[w].status = "rejected"
    /\ \A v \in WorkflowIds : v # w => workflows[v].status = "pending"

\* C2: of the approve calls on one workflow at most one succeeds: an
\* approval commits only while the workflow is still pending and has no
\* ledger entry yet, however the calls interleave.
C2_ApproveSucceedsOnce ==
  [][\A r \in Slots :
       ApproveCommit(r) => /\ workflows[req[r].wf].status = "pending"
                           /\ EntriesFor(req[r].wf) = {}]_vars

\* C3: every decision (approve, reject, cancel) commits on a workflow that
\* is still pending, so exactly one of the concurrent calls succeeds, and
\* a workflow has a ledger entry only if its status is approved.
C3_OneDecisionWins ==
  [][/\ \A r \in Slots :
          (ApproveCommit(r) \/ RejectCommit(r) \/ CancelCommit(r))
            => workflows[req[r].wf].status = "pending"
     /\ \A w \in 1..Len(workflows') :
          (\E i \in 1..Len(history') : history'[i].workflow_id = w)
            => workflows'[w].status = "approved"]_vars

\* C4: an approval that hands the asset to a user never commits after an
\* approval of another workflow handed the same asset to a different user
\* while the first one was in flight.
C4_NoRacingAssignment ==
  [][\A r \in Slots :
       (ApproveCommit(r) /\ Target(workflows[req[r].wf]) # None) => ~req[r].raced]_vars

\* C5: a workflow's status changes only from pending to approved, rejected
\* or cancelled; completed is never reached.
C5_StatusMachine ==
  [][/\ \A w \in WorkflowIds :
          workflows'[w].status # workflows[w].status
            => /\ workflows[w].status = "pending"
               /\ workflows'[w].status \in {"approved", "rejected", "cancelled"}
     /\ \A w \in 1..Len(workflows') :
          /\ w \notin WorkflowIds => workflows'[w].status = "pending"
          /\ workflows'[w].status # "completed"]_vars

\* C6: approval is all-or-nothing: whenever no call is running, the ledger
\* holds exactly one entry per approved workflow, so no asset change or
\* entry is left behind for a workflow that is still pending.
C6_ApprovalAtomic ==
  (\A r \in Slots : req[r].pc = "idle")
    => Len(history) = Cardinality({w \in WorkflowIds : workflows[w].status = "approved"})

C8_CheckinPostcondition ==
  [][\A r \in Slots :
       Approves(r, "checkin") =>
         /\ assets'[workflows[req[r].wf].asset_id].assigned_to = None
         /\ AppendsOne("unassigned", req[r].wf)]_vars

\* A checkin has been approved: its asset is unassigned and the ledger
\* holds one unassigned entry for it.
C8_Witness ==
  \E w \in WorkflowIds :
    /\ workflows[w].type = "checkin" /\ workflows[w].status = "approved"
    /\ assets[workflows[w].asset_id].assigned_to = None
    /\ Cardinality(EntriesFor(w)) = 1
    /\ \A i \in EntriesFor(w) : history[i].action = "unassigned"

\* C9 as claimed: an approved checkin leaves the asset's status stock.
C9_CheckinLeavesStock ==
  [][\A r \in Slots :
       Approves(r, "checkin") => assets'[workflows[req[r].wf].asset_id].status = "stock"]_vars

\* C9, amended: an approved checkin leaves the asset's status loaned.
C9_CheckinLeavesLoaned ==
  [][\A r \in Slots :
       Approves(r, "checkin") => assets'[workflows[req[r].wf].asset_id].status = "loaned"]_vars

\* An asset that started in stock was checked out and checked in again:
\* it is now loaned.
C9_Witness ==
  \E w \in WorkflowIds, v \in WorkflowIds :
    /\ workflows[v].type = "checkout" /\ workflows[v].status = "approved"
    /\ workflows[w].type = "checkin" /\ workflows[w].status = "approved"
    /\ workflows[v].approved_at < workflows[w].approved_at
    /\ assets[workflows[w].asset_id].status = "loaned"

OnlyChanges(w, fields) ==
  /\ Len(workflows') = Len(workflows)
  /\ \A v \in WorkflowIds :
       \A f \in DOMAIN workflows[v] :
         (v # w \/ f \notin fields) => workflows'[v][f] = workflows[v][f]

\* C14: a successful reject of a pending workflow makes it rejected and
\* sets approver_id, rejected_at and reject_reason; no other field of any
\* workflow changes, and the asset and the ledger are left as they were.
C14_RejectFrame ==
  [][\A r \in Slots :
       (RejectCommit(r) /\ workflows[req[r].wf].status = "pending") =>
         LET w == req[r].wf
         IN /\ workflows'[w].status = "rejected"
            /\ workflows'[w].approver_id = req[r].actor
            /\ workflows'[w].rejected_at # NoTime
            /\ workflows'[w].reject_reason
            /\ OnlyChanges(w, {"status", "approver_id", "rejected_at", "reject_reason"})
            /\ assets' = assets
            /\ history' = history]_vars

\* The manager has just rejected a workflow on an asset that an earlier
\* approval assigned: the asset is still assigned and the ledger still
\* holds the one entry of that approval.
C14_Witness ==
  \E r \in Slots, w \in WorkflowIds :
    /\ req[r].pc = "done" /\ req[r].result = "ok"
    /\ workflows[w].status = "rejected" /\ workflows[w].approver_id = "m1"
    /\ workflows[w].rejected_at = now - 1 /\ workflows[w].reject_reason
    /\ workflows[w].approved_at = NoTime
    /\ assets[workflows[w].asset_id].assigned_to = "u1"
    /\ Len(history) = 1

C16_DecisionTimestamps ==
  [][\A w \in WorkflowIds :
       /\ ~(workflows'[w].approved_at # NoTime /\ workflows'[w].rejected_at # NoTime)
       /\ (workflows'[w].approved_at # workflows[w].approved_at)
            <=> (workflows[w].status = "pending" /\ workflows'[w].status = "approved")
       /\ (workflows'[w].rejected_at # workflows[w].rejected_at)
            <=> (workflows[w].status = "pending" /\ workflows'[w].status = "rejected")
       /\ workflows[w].approved_at # NoTime
            => workflows'[w].approved_at = workflows[w].approved_at
       /\ workflows[w].rejected_at # NoTime
            => workflows'[w].rejected_at = workflows[w].rejected_at]_vars

\* C17: every step that changes the assets table or the workflows table
\* (a successful state-changing operation) appends exactly one ledger entry.
C17_OneEntryPerChange ==
  [][(assets' # assets \/ workflows' # workflows)
       => /\ Len(history') = Len(history) + 1
          /\ SubSeq(history', 1, Len(history)) = history]_vars

\* C18: the ledger only grows: after every step, the entries it held
\* before are still there, in place and unchanged.
C18_LedgerAppendOnly ==
  [][/\ Len(history') >= Len(history)
     /\ SubSeq(history', 1, Len(history)) = history]_vars

\* The ledger holds three entries, written by an approval and by registry
\* operations.
C18_Witness ==
  /\ Len(history) = MaxHistory
  /\ \E i \in 1..Len(history) : history[i].workflow_id # NoWorkflow
  /\ \E i \in 1..Len(history) : history[i].action \in {"deleted", "status_changed", "updated"}
                                  /\ history[i].workflow_id = NoWorkflow

\* C19: every soft-deleted asset is disposed and assigned to nobody.
C19_DeletedAssetReleased ==
  \A a \in Assets :
    assets[a].deleted_at # NoTime
      => (assets[a].status = "disposed" /\ assets[a].assigned_to = None)

Creates == Len(workflows') = Len(workflows) + 1
NewRow == workflows'[Len(workflows')]

RoleRule(unauth(_, _)) ==
  /\ \A r \in Slots :
       (req[r].pc \in {"approve_asset", "reject"} /\ req'[r].result = "ok")
         => UserRole(req[r].actor) \in {"admin", "manager"}
  /\ Tables' # Tables =>
       \A r \in Slots : ~(req[r].pc = "idle" /\ req'[r].pc = "done")
  /\ Creates =>
       /\ NewRow.type \in {"disposal", "maintenance"}
            => UserRole(NewRow.requester_id) \in {"admin", "manager"}
       /\ \A u \in Users, w \in 0..MaxWorkflows :
            UserRole(u) \notin {"admin", "manager"}
              => /\ ApproveOutcome(u, w) = "Forbidden"
                 /\ RejectOutcome(u, w) = "Forbidden"
       /\ \A u \in Users, a \in AssetIds, t \in {"disposal", "maintenance"} :
            CreateWorkflowOutcome(u, t, a, FALSE) =
              (IF UserRole(u) \in {"admin", "manager"}
               THEN (IF a \in Assets THEN "ok" ELSE "NotFound")
               ELSE unauth(u, a))

AlwaysForbidden(u, a) == "Forbidden"
ForbiddenIfAssetExists(u, a) == IF a \in Assets THEN "Forbidden" ELSE "NotFound"

C25_CreationIsAtomic ==
  [][Len(workflows') # Len(workflows) =>
       /\ Creates
       /\ SubSeq(workflows', 1, Len(workflows)) = workflows
       /\ NewRow.status = "pending"
       /\ NewRow.approver_id = None
       /\ assets' = assets
       /\ history' = history
       /\ NewRow.asset_id \in Assets
       /\ \/ \E erd \in BOOLEAN :
               CreateWorkflowOutcome(NewRow.requester_id, NewRow.type,
                                     NewRow.asset_id, erd) = "ok"
          \/ /\ NewRow.type = "checkout"
             /\ CreateCheckoutOutcome(NewRow.requester_id, NewRow.asset_id) = "ok"
          \/ /\ NewRow.type = "checkin"
             /\ CreateCheckinOutcome(NewRow.requester_id, NewRow.asset_id) = "ok"]_vars

\* A workflow has been created, and is pending, after the approval of a
\* checkout issued the asset (a state in which POST /workflows/checkout
\* is refused).
C25_Witness ==
  \E v, w \in WorkflowIds :
    /\ v < w
    /\ workflows[v].type = "checkout"
    /\ workflows[v].status = "approved"
    /\ assets[workflows[v].asset_id].status = "issued"
    /\ workflows[w].status = "pending"
    /\ workflows[w].approved_at = NoTime
(* ---------------- notification ---------------- *)
\* C26: a handler reaches its notification only by the step that commits
\* its transaction (the new workflow is then inserted, the decided one
\* approved), and from there on, whatever the notification does (sent,
\* failure returned, exception raised, skipped), no table changes and the
\* caller's result is the success.
C26_NotifyAfterCommit ==
  [][\A r \in Slots :
       /\ (req'[r].pc \in NotifyPcs /\ req[r].pc \notin NotifyPcs) =>
            /\ workflows' # workflows
            /\ req'[r].pc = "notify_managers" =>
                 (Creates /\ req'[r].wf = Len(workflows') /\ NewRow.status = "pending")
            /\ req'[r].pc = "notify_requester" =>
                 (req[r].pc = "approve_asset"
                    /\ workflows'[req'[r].wf].status = "approved")
       /\ req[r].pc \in NotifyPcs =>
            (Tables' = Tables /\ req'[r].pc \in MailPcs)
       /\ req[r].pc \in MailPcs =>
            /\ Tables' = Tables
            /\ req'[r].pc = "done"
            /\ req'[r].result = "ok"]_vars

\* The notification of an approval that has assigned the asset has raised.
C26_Witness ==
  \E r \in Slots :
    /\ req[r].pc = "mail_raised"
    /\ req[r].wf \in WorkflowIds
    /\ workflows[req[r].wf].status = "approved"
    /\ assets[workflows[req[r].wf].asset_id].assigned_to # None
    /\ history # <<>>

\* C27: every committed decision, approve or reject, is followed by the
\* notification of the requester.
C27_DecisionNotifiesRequester ==
  [][\A r \in Slots :
       (req[r].pc \in {"approve_asset", "reject"} /\ workflows' # workflows)
         => req'[r].pc = "notify_requester"]_vars
(* ---------------- asset creation ---------------- *)
\* Some asset carries this tag.
HasTag(tbl, tag) == \E a \in DOMAIN tbl : tbl[a].asset_tag = tag

\* C28: every create call that generates its tag ends with an asset that
\* carries the generated tag, and the generated tags in the table are
\* pairwise distinct with the sequence numbers 1..N.
C28_TagsCollisionFree ==
  [][/\ \A r \in Slots :
          (req[r].pc \in {"tag_generated", "tag_checked"} /\ req'[r].pc = "done")
            => (req'[r].result = "ok" /\ HasTag(assets', req[r].asset_tag))
     /\ LET gen == {a \in DOMAIN assets' : assets'[a].asset_tag.prefix = TagPrefix}
        IN /\ \A a, b \in gen :
                assets'[a].asset_tag = assets'[b].asset_tag => a = b
           /\ {assets'[a].asset_tag.seq : a \in gen} = 1..Cardinality(gen)]_vars

\* C29: a creation request whose tag an existing asset carries is refused
\* with DuplicateTagError and writes nothing; a request of an admin or a
\* manager with a fresh tag and an existing category inserts the asset and
\* one created entry for it; no two assets carry the same tag.
C29_CreateAssetContract ==
  [][/\ \A r \in Slots :
          /\ (req[r].pc = "idle" /\ req'[r].pc = "done"
                 /\ req'[r].result = "DuplicateTag") => Tables' = Tables
          /\ (req[r].pc = "create_asset" /\ req'[r].pc = "done"
                 /\ req[r].category_id = Category)
               => /\ req'[r].result = "ok"
                  /\ HasTag(assets', req[r].asset_tag)
                  /\ Len(history') = Len(history) + 1
                  /\ history'[Len(history')].action = "created"
     /\ \A u \in Managers, tag \in TagInputs :
          HasTag(assets, tag) <=> CreateAssetOutcome(u, tag) = "DuplicateTag"
     /\ \A a, b \in DOMAIN assets' :
          assets'[a].asset_tag = assets'[b].asset_tag => a = b]_vars
(* ---------------- asset queries ---------------- *)
\* C30: a soft-deleted asset is not in the default listing, is still
\* returned when looked up by its id, and its history holds every entry
\* written for it, the entry of its deletion included.
C30_DeletedAssetStillReadable ==
  \A a \in Assets :
    assets[a].deleted_at # NoTime
      => /\ a \notin GetAssets
         /\ GetAsset(a) = "ok"
         /\ GetAssetHistory(a) # "NotFound"
         /\ Len(GetAssetHistory(a))
              = Cardinality({i \in 1..Len(history) : history[i].asset_id = a})
         /\ \E i \in 1..Len(GetAssetHistory(a)) :
              GetAssetHistory(a)[i].action = "deleted"
\* C31: mark_viewed succeeds only for the workflow's requester and only on
\* a workflow that has left pending; it sets viewed_by_requester on the
\* workflow and changes nothing else of the workflow, no asset and no ledger
\* entry.
C31_MarkViewedContract ==
  [][\A r \in Slots :
       (req[r].pc = "mark_viewed" /\ req'[r].result = "ok")
         => /\ workflows[req[r].wf].requester_id = req[r].actor
            /\ workflows[req[r].wf].status # "pending"
            /\ "viewed_by_requester" \in DOMAIN workflows'[req[r].wf]
            /\ workflows'[req[r].wf].viewed_by_requester
            /\ \A f \in DOMAIN workflows[req[r].wf] :
                 workflows'[req[r].wf][f] = workflows[req[r].wf][f]
            /\ \A w \in WorkflowIds \ {req[r].wf} : workflows'[w] = workflows[w]
            /\ assets' = assets
            /\ history' = history]_vars

\* C32: after every update of an asset through an update operation the
\* asset's grade is the grade calculate_grade gives for its purchase date.
C32_GradeFollowsPurchaseDate ==
  \A a \in Assets : assets[a].grade = CalculateGrade(assets[a].purchase_date)

\* C33: assign_asset fails and changes nothing unless the asset exists, is
\* not soft-deleted and has status loaned or stock; when it succeeds the
\* asset is issued to the given user and exactly one assigned entry is
\* appended that records the previous and the new user.
C33_AssignContract ==
  [][\A r \in Slots :
       /\ (req[r].pc = "assign" /\ req'[r].result = "ok")
            => /\ assets[req[r].asset_id].deleted_at = NoTime
               /\ assets[req[r].asset_id].status \in {"loaned", "stock"}
               /\ assets'[req[r].asset_id].assigned_to = req[r].user_id
               /\ assets'[req[r].asset_id].status = "issued"
               /\ Len(history') = Len(history) + 1
               /\ SubSeq(history', 1, Len(history)) = history
               /\ history'[Len(history')].action = "assigned"
               /\ history'[Len(history')].from_user_id = assets[req[r].asset_id].assigned_to
               /\ history'[Len(history')].to_user_id = req[r].user_id
       /\ (req[r].pc = "idle" /\ req'[r].pc = "assign")
            => /\ assets[req'[r].asset_id].deleted_at = NoTime
               /\ assets[req'[r].asset_id].status \in {"loaned", "stock"}]_vars

\* C34: unassign_asset goes ahead only on an issued asset, and a call that
\* fails changes nothing; when it succeeds the asset has no user, a status
\* other than issued from which assign_asset is permitted again, and
\* exactly one unassigned entry is appended that records the previous user.
C34_UnassignContract ==
  [][\A r \in Slots :
       /\ (req[r].pc = "unassign" /\ req'[r].result = "ok")
            => /\ assets[req[r].asset_id].status = "issued"
               /\ assets'[req[r].asset_id].assigned_to = None
               /\ assets'[req[r].asset_id].status # "issued"
               /\ \E a \in Assets : a = req[r].asset_id /\ AssignOutcome(a)' = "ok"
               /\ \A a \in Assets \ {req[r].asset_id} : assets'[a] = assets[a]
               /\ Len(history') = Len(history) + 1
               /\ SubSeq(history', 1, Len(history)) = history
               /\ history'[Len(history')].action = "unassigned"
               /\ history'[Len(history')].asset_id = req[r].asset_id
               /\ history'[Len(history')].from_user_id = assets[req[r].asset_id].assigned_to
               /\ history'[Len(history')].to_user_id = None
       /\ (req[r].pc = "idle" /\ req'[r].pc = "unassign")
            => assets[req'[r].asset_id].status = "issued"
       /\ (req[r].pc = "idle" /\ req'[r].pc = "done"
              /\ req'[r].result \in {"Invalid", "NotFound"})
            => Tables' = Tables
       /\ \A a \in Assets :
            UnassignOutcome(a) = (IF assets[a].status = "issued" THEN "ok" ELSE "Invalid")]_vars

\* An asset issued to u1 has been released: it is in the rental pool
\* without a user and the newest ledger entry names u1 as the previous user.
C34_Witness ==
  \E r \in Slots :
    /\ req[r].pc = "done" /\ req[r].result = "ok"
    /\ history # <<>>
    /\ history[Len(history)].action = "unassigned"
    /\ history[Len(history)].from_user_id = "u1"
    /\ assets[history[Len(history)].asset_id].status = "loaned"
    /\ assets[history[Len(history)].asset_id].assigned_to = None

\* The ledger entries that record the deletion of asset a.
DeletedEntries(h, a) == {i \in 1..Len(h) : h[i].action = "deleted" /\ h[i].asset_id = a}

\* C35: a deleted asset keeps its deleted_at and gets no second deleted
\* entry, and whatever deletes an asset sets deleted_at, forces its status
\* to disposed and appends exactly one deleted entry.
C35_SoftDeleteContract ==
  [][\A a \in Assets :
       /\ assets[a].deleted_at # NoTime
            => /\ assets'[a].deleted_at = assets[a].deleted_at
               /\ DeletedEntries(history', a) = DeletedEntries(history, a)
       /\ (assets[a].deleted_at = NoTime /\ assets'[a].deleted_at # NoTime)
            => /\ assets'[a].status = "disposed"
               /\ Len(history') = Len(history) + 1
               /\ SubSeq(history', 1, Len(history)) = history
               /\ DeletedEntries(history', a) = DeletedEntries(history, a) \cup {Len(history')}]_vars

\* The creation precondition of workflow w, on the asset as it is now.
CreationPrecondition(w) ==
  CASE w.type = "checkout" -> CreateCheckoutOutcome(w.requester_id, w.asset_id) = "ok"
    [] w.type = "checkin" -> CreateCheckinOutcome(w.requester_id, w.asset_id) = "ok"
    [] OTHER -> CreateWorkflowOutcome(w.requester_id, w.type, w.asset_id, TRUE) = "ok"

\* C36: an approval changes the asset only if the creation precondition of
\* the workflow's type holds on the asset at that moment: a checkout or
\* rental approval never replaces the user who holds the asset by another
\* one, and a checkin or return approval never clears the custody of a user
\* other than the requester.
C36_ApprovalRechecksPrecondition ==
  [][\A r \in Slots :
       (req[r].pc = "approve_asset" /\ req'[r].result = "ok")
         => LET w == workflows[req[r].wf]
                held == assets[w.asset_id].assigned_to
            IN /\ (assets' # assets \/ history' # history) => CreationPrecondition(w)
               /\ w.type \in {"checkout", "rental"}
                    => (held = None \/ assets'[w.asset_id].assigned_to = held)
               /\ w.type \in {"checkin", "return"}
                    => (held \in {None, w.requester_id}
                          \/ assets'[w.asset_id].assigned_to = held)]_vars

\* C37: creations running one after the other, the tag that
\* generate_asset_number returns is the tag of no existing asset, also when
\* two categories share a code and when an asset carries a supplied tag of
\* the form CODE-YEAR-SEQ.
C37_GeneratedTagIsFresh ==
  \A r \in Slots : req[r].pc = "tag_generated" => ~TagExists(req[r].asset_tag)

\* The columns of asset a that an approval works with.
Custody(a) == [status |-> assets[a].status, assigned_to |-> assets[a].assigned_to]

\* C38: started on the same pending checkout or checkin workflow with no
\* other request running, WorkflowService.approve_workflow and the approve
\* endpoint both succeed or both fail, and leave the same asset status and
\* assigned_to and a history entry with the same action and workflow_id
\* (the endpoint has no check of the asset and always succeeds).
C38_ApprovalsAgree ==
  \A w \in WorkflowIds, u \in Managers :
    (/\ NoRequestRunning
     /\ workflows[w].status = "pending"
     /\ workflows[w].type \in {"checkout", "checkin"})
      => LET wf == workflows[w]
             row == Custody(wf.asset_id)
         IN /\ ApproveOutcome(u, w) = ServiceOutcome(w)
            /\ ServiceAssetAllowed(wf, row)
            /\ ServiceAssetEffect(wf, row) = EndpointAssetEffect(wf, row)
            /\ Len(EndpointHistory(wf, w, u)) = 1
            /\ ServiceHistory(wf, row, u).action = EndpointHistory(wf, w, u)[1].action
            /\ ServiceHistory(wf, row, u).workflow_id
                 = EndpointHistory(wf, w, u)[1].workflow_id

\* C39: once an asset is disposed, by an approved disposal workflow or by
\* a soft delete, no approval of a workflow changes its status or gives it
\* a user, not even the approval of a workflow that was pending before.
C39_DisposalIsFinal ==
  [][\A r \in Slots :
       (req[r].pc = "approve_asset" /\ req'[r].result = "ok")
         => \A a \in Assets :
              assets[a].status = "disposed"
                => /\ assets'[a].status = "disposed"
                   /\ assets'[a].assigned_to \in {None, assets[a].assigned_to}]_vars

====
